---- MODULE Spec2Model ----
(***************************************************************************)
(* Model of the markup parser of mango (package markup, parser source      *)
(* src/unnamed/part_000): line grouping, the indentation-driven tree       *)
(* builder Parser.Parse and its one-shot onAdd hook.                       *)
(*                                                                         *)
(* Nodes live in an arena `nodes`; a *Node is an index into it, 0 is nil.  *)
(* Every Parse call allocates a fresh tree, so the arena restarts with the *)
(* call.  One action models one step of Parse's control flow.              *)
(***************************************************************************)
EXTENDS Integers, Sequences, FiniteSets, TLC

\* ------------------------------------------------------------------ bounds
MaxTokens == 4      \* flat inputs: every token sequence up to this length
MaxLines  == 3      \* line-structured inputs: number of lines
MaxLevel  == 2      \* line-structured inputs: leading Indent tokens per line
MaxReuse  == 2      \* inputs of a reused parser: number of lines
MaxCalls  == 3      \* parseOptions: call expressions in the file
MaxOptions == 3     \* feedOptions: options of the file

\* --------------------------------------------------------------- node kinds
NODE_GROUP         == 0
NODE_BLOCK         == 1
NODE_SECTION       == 2
NODE_TEXT          == 3
NODE_TEXTBOLD      == 4
NODE_TEXTUNDERLINE == 5
NODE_LIST          == 6
NODE_LISTITEM      == 7
NODE_SPACE         == 8
NODE_BREAK         == 9

\* -------------------------------------------------------------- token kinds
TOKEN_INDENT    == "INDENT"
TOKEN_EOL       == "EOL"
TOKEN_SECTION   == "SECTION"
TOKEN_TEXT      == "TEXT"
TOKEN_STAR      == "STAR"
TOKEN_UNDERLINE == "UNDERLINE"
TOKEN_LISTITEM  == "LISTITEM"
TOKEN_BLOCKITEM == "BLOCKITEM"

NewToken(kind) == [Kind |-> kind, Text |-> ""]
NewTokenWithText(kind, text) == [Kind |-> kind, Text |-> text]

Nil == 0

VARIABLES
    pc,         \* position of the Parse call
    tokens,     \* the argument of the running (or last) Parse call
    rest,       \* Parse's local `tokens` while it is split into groups
    groups,     \* Parse's local `groups`
    i,          \* index of the range loop over groups (0-based)
    lastLevel,  \* Parse's local lastLevel
    levelDiff,  \* Parse's local levelDiff
    nodes,      \* arena of Node records
    root,       \* Parser.root
    curr,       \* Parser.curr
    onAdd,      \* Parser.onAdd # nil
    pre,        \* history: the step just taken and the state it started from
    lineMark,   \* history: number of nodes when the current line began
    anchor,     \* history: anchor[d] = curr just before the group of depth d was opened
    memo,       \* history: a remembered earlier call, its argument and its tree
    bpc,        \* position of the parseOptions or feedOptions call
    calls,      \* the call expressions of the file, in the order ast.Inspect visits them
    inspected,  \* number of call expressions visited
    options,    \* parseOptions' local `options`
    bound,      \* parseOptions' local `bound`: variable name -> index into options
    fileOptions, \* File.Options
    optPlain,   \* the -plain flag
    fed,        \* number of options the loop of feedOptions has handled
    rendered    \* the calls made on the Renderer, in order

parserVars == <<pc, tokens, rest, groups, i, lastLevel, levelDiff, nodes, root,
                curr, onAdd, pre, lineMark, anchor, memo>>

builderVars == <<bpc, calls, inspected, options, bound, fileOptions, optPlain,
                 fed, rendered>>

vars == <<parserVars, builderVars>>

\* ------------------------------------------------------------------- nodes
NewNodeWithText(kind, text) ==
    [Kind |-> kind, Text |-> text, Parent |-> Nil, Childs |-> <<>>]

NewNode(kind) == NewNodeWithText(kind, "")

IsTextKind(kind) == kind \in {NODE_TEXT, NODE_TEXTBOLD, NODE_TEXTUNDERLINE}

IsTextNode(ns, n) == IsTextKind(ns[n].Kind)

\* Mutant: the child is put in front of its siblings.
AddChild_Prepend(ns, n, c) ==
    LET id == Len(ns) + 1
    IN  Append([ns EXCEPT ![n].Childs = <<id>> \o @], [c EXCEPT !.Parent = n])

\* Mutant: the child is listed but its parent link is not set.
AddChild_NoParent(ns, n, c) ==
    LET id == Len(ns) + 1
    IN  Append([ns EXCEPT ![n].Childs = Append(@, id)], c)

\* n.AddChild(c) for a freshly allocated c: c gets the next arena index.
AddChild(ns, n, c) ==
    LET id == Len(ns) + 1
    IN  Append([ns EXCEPT ![n].Childs = Append(@, id)], [c EXCEPT !.Parent = n])

\* The parser fields the helpers work on.
ParserOf(ns, r, c, h) == [nodes |-> ns, root |-> r, curr |-> c, onAdd |-> h]

P == ParserOf(nodes, root, curr, onAdd)

RECURSIVE addNode(_, _, _)
\* Mutant: the closure adds a Space before a node of any kind.
callback_AnyKind(p, kind) == addNode(p, NODE_SPACE, "").p

\* The closure installed at line 254.
callback(p, kind) ==
    IF IsTextKind(kind) THEN addNode(p, NODE_SPACE, "").p ELSE p

\* Mutant: the hook stays armed after it has run.
addNode_Sticky(p, kind, text) ==
    LET node == NewNodeWithText(kind, text)
        p1 == IF p.onAdd
              THEN [callback([p EXCEPT !.onAdd = FALSE], kind) EXCEPT !.onAdd = TRUE]
              ELSE p
        ns == AddChild(p1.nodes, p1.curr, node)
    IN  [p |-> [p1 EXCEPT !.nodes = ns], node |-> Len(ns)]

\* Returns the parser after the call and the new node.
addNode(p, kind, text) ==
    LET node == NewNodeWithText(kind, text)
        p1 == IF p.onAdd THEN callback([p EXCEPT !.onAdd = FALSE], kind) ELSE p
        ns == AddChild(p1.nodes, p1.curr, node)
    IN  [p |-> [p1 EXCEPT !.nodes = ns], node |-> Len(ns)]

\* Mutant: the last child is never looked at.
lastNode_CurrOnly(p) == p.curr

lastNode(p) ==
    LET ch == p.nodes[p.curr].Childs
    IN  IF Len(ch) > 0 THEN ch[Len(ch)] ELSE p.curr

\* Mutant: the new Group is added but not entered.
openGroup_NoDescend(p) == addNode(p, NODE_GROUP, "").p

openGroup(p) ==
    LET r == addNode(p, NODE_GROUP, "")
    IN  [r.p EXCEPT !.curr = r.node]

RECURSIVE ClimbToGroup(_, _)
\* The for loop of closeGroup.
ClimbToGroup(ns, n) ==
    IF ns[n].Parent # Nil /\ ns[n].Kind # NODE_GROUP
    THEN ClimbToGroup(ns, ns[n].Parent)
    ELSE n

\* Mutant: ascends one node, whatever its kind.
closeGroup_OneUp(p) ==
    IF p.nodes[p.curr].Parent # Nil
    THEN [p EXCEPT !.curr = p.nodes[p.curr].Parent]
    ELSE p

\* Mutant: leaves curr alone when no group above the root encloses it.
closeGroup_StayBelowRoot(p) ==
    LET g == ClimbToGroup(p.nodes, p.curr)
    IN  IF p.nodes[g].Parent # Nil
        THEN [p EXCEPT !.curr = p.nodes[g].Parent]
        ELSE p

closeGroup(p) ==
    LET g == ClimbToGroup(p.nodes, p.curr)
    IN  IF p.nodes[g].Parent # Nil
        THEN [p EXCEPT !.curr = p.nodes[g].Parent]
        ELSE [p EXCEPT !.curr = g]

\* Mutant: curr stays where it is.
closeAllGroups_Stay(p) == p

\* Mutant: only the innermost level is closed.
closeAllGroups_OneLevel(p) == closeGroup(p)

closeAllGroups(p) == [p EXCEPT !.curr = p.root]

\* ------------------------------------------------------------- line groups
Is(token, kind) == token.Kind = kind

RECURSIVE CountIndents(_, _)
CountIndents(inp, level) ==
    IF level < Len(inp) /\ Is(inp[level + 1], TOKEN_INDENT)
    THEN CountIndents(inp, level + 1)
    ELSE level

RECURSIVE TakeLine(_, _)
TakeLine(inp, acc) ==
    IF Len(inp) = 0 \/ Is(Head(inp), TOKEN_EOL)
    THEN acc
    ELSE TakeLine(Tail(inp), Append(acc, Head(inp)))

\* Mutant: the count returned leaves out the indentation tokens.
NewTokenGroup_BodyOnly(inpTokens) ==
    LET level == CountIndents(inpTokens, 0)
        toks  == TakeLine(SubSeq(inpTokens, level + 1, Len(inpTokens)), <<>>)
    IN  [group |-> [tokens |-> toks, level |-> level, pos |-> 0],
         consumed |-> Len(toks)]

NewTokenGroup(inpTokens) ==
    LET level == CountIndents(inpTokens, 0)
        toks  == TakeLine(SubSeq(inpTokens, level + 1, Len(inpTokens)), <<>>)
    IN  [group |-> [tokens |-> toks, level |-> level, pos |-> 0],
         consumed |-> level + Len(toks)]

\* group.Tokens(): the tokens from the cursor on.
Tokens(g) ==
    LET k == IF g.pos >= Len(g.tokens) THEN Len(g.tokens) ELSE g.pos
    IN  SubSeq(g.tokens, k + 1, Len(g.tokens))

\* Tokens.Are(kinds...): the next tokens have these kinds.
Are(toks, kinds) ==
    /\ Len(toks) >= Len(kinds)
    /\ \A k \in 1..Len(kinds) : Is(toks[k], kinds[k])

\* group.Next() returns nil exactly when AtEnd(g); otherwise it returns
\* Current(g) and leaves the group Advance(g, 1).
AtEnd(g) == g.pos >= Len(g.tokens)

Current(g) == g.tokens[g.pos + 1]

Advance(g, n) == [g EXCEPT !.pos = @ + n]

\* ------------------------------------------------------------------ inputs
Seqs(S, n) == UNION {[1..k -> S] : k \in 0..n}

Alphabet ==
    {NewToken(TOKEN_INDENT), NewToken(TOKEN_EOL), NewToken(TOKEN_STAR),
     NewToken(TOKEN_UNDERLINE),
     NewTokenWithText(TOKEN_SECTION, "s"),
     NewTokenWithText(TOKEN_TEXT, "a"),
     NewTokenWithText(TOKEN_LISTITEM, "x"),
     NewTokenWithText(TOKEN_BLOCKITEM, "q")}

\* Every token sequence of up to MaxTokens tokens.
FlatInputs == Seqs(Alphabet, MaxTokens)

Indents(n) == [k \in 1..n |-> NewToken(TOKEN_INDENT)]

Line(level, body) == Indents(level) \o body \o <<NewToken(TOKEN_EOL)>>

RECURSIVE Concat(_)
Concat(ls) == IF Len(ls) = 0 THEN <<>> ELSE Head(ls) \o Concat(Tail(ls))

LineBodies ==
    {<<NewTokenWithText(TOKEN_TEXT, "a")>>,
     <<NewTokenWithText(TOKEN_SECTION, "s")>>,
     <<NewTokenWithText(TOKEN_LISTITEM, "x")>>}

\* The empty line, and the lines of one token at every level.
Lines == {Line(0, <<>>)} \cup {Line(l, b) : l \in 0..MaxLevel, b \in LineBodies}

\* Up to MaxLines terminated lines, each indented by up to MaxLevel.
LineInputs == {Concat(ls) : ls \in Seqs(Lines, MaxLines)}

\* The token sequences of the documented scenarios that the two families
\* above are too short for.
Examples ==
    {<<NewToken(TOKEN_STAR), NewTokenWithText(TOKEN_TEXT, "a"),
       NewToken(TOKEN_STAR), NewTokenWithText(TOKEN_TEXT, "b"),
       NewToken(TOKEN_EOL)>>,
     Line(0, <<NewTokenWithText(TOKEN_TEXT, "a")>>)
       \o Line(0, <<NewToken(TOKEN_UNDERLINE), NewTokenWithText(TOKEN_TEXT, "b"),
                    NewToken(TOKEN_UNDERLINE), NewTokenWithText(TOKEN_TEXT, "a")>>),
     Line(3, <<NewTokenWithText(TOKEN_SECTION, "s")>>)
       \o Line(3, <<NewTokenWithText(TOKEN_TEXT, "a")>>),
     Line(1, <<NewTokenWithText(TOKEN_TEXT, "a")>>)
       \o Line(2, <<>>)
       \o Line(1, <<NewTokenWithText(TOKEN_TEXT, "a")>>),
     Line(2, <<>>)
       \o Line(2, <<NewTokenWithText(TOKEN_LISTITEM, "x")>>)
       \o Line(0, <<NewTokenWithText(TOKEN_TEXT, "a")>>),
     Line(1, <<NewTokenWithText(TOKEN_BLOCKITEM, "q")>>)
       \o Line(1, <<NewTokenWithText(TOKEN_BLOCKITEM, "r")>>)
       \o Line(1, <<NewTokenWithText(TOKEN_BLOCKITEM, "q")>>),
     Line(0, <<NewTokenWithText(TOKEN_BLOCKITEM, "q"), NewTokenWithText(TOKEN_TEXT, "a")>>)
       \o Line(0, <<NewTokenWithText(TOKEN_BLOCKITEM, "r")>>)}

Inputs == FlatInputs \cup LineInputs \cup Examples

\* The lines a reused parser is fed.
ReuseLines ==
    {Line(0, <<>>),
     Line(0, <<NewTokenWithText(TOKEN_TEXT, "a")>>),
     Line(1, <<NewTokenWithText(TOKEN_LISTITEM, "x"), NewToken(TOKEN_STAR),
               NewTokenWithText(TOKEN_TEXT, "b"), NewToken(TOKEN_STAR)>>),
     Line(0, <<NewTokenWithText(TOKEN_BLOCKITEM, "q")>>),
     Line(0, <<NewTokenWithText(TOKEN_SECTION, "s"), NewToken(TOKEN_UNDERLINE),
               NewTokenWithText(TOKEN_TEXT, "b"), NewToken(TOKEN_UNDERLINE),
               NewToken(TOKEN_INDENT)>>)}

\* Up to MaxReuse of these lines per call.
ReuseInputs == {Concat(ls) : ls \in Seqs(ReuseLines, MaxReuse)}

\* -------------------------------------------------------------------- Init
NoStep == [op |-> "none", curr |-> Nil, n |-> 0, onAdd |-> FALSE, pos |-> 0]

\* The snapshot a step leaves in `pre`: the parser fields and the cursor of
\* the line it started from.
Step(op) ==
    [op |-> op, curr |-> curr, n |-> Len(nodes), onAdd |-> onAdd,
     pos |-> IF i < Len(groups) THEN groups[i + 1].pos ELSE 0]

NoMemo == [set |-> FALSE, tokens |-> <<>>, tree |-> <<>>, between |-> FALSE]

RECURSIVE Tree(_, _)
\* The tree below node n as a value: kind, text and the children's trees.
Tree(ns, n) ==
    <<ns[n].Kind, ns[n].Text,
      [k \in 1..Len(ns[n].Childs) |-> Tree(ns, ns[n].Childs[k])]>>

\* NewParser(): every field is nil.
Init ==
    /\ pc = "idle"
    /\ tokens = <<>>
    /\ rest = <<>>
    /\ groups = <<>>
    /\ i = 0
    /\ lastLevel = 0
    /\ levelDiff = 0
    /\ nodes = <<>>
    /\ root = Nil
    /\ curr = Nil
    /\ onAdd = FALSE
    /\ pre = NoStep
    /\ lineMark = 0
    /\ anchor = <<>>
    /\ memo = NoMemo
    /\ bpc = "off"
    /\ calls = <<>>
    /\ inspected = 0
    /\ options = <<>>
    /\ bound = [v \in {} |-> 0]
    /\ fileOptions = <<>>
    /\ optPlain = FALSE
    /\ fed = 0
    /\ rendered = <<>>

\* Assign the parser fields from a parser record.
SetParser(p) ==
    /\ nodes' = p.nodes
    /\ root' = p.root
    /\ curr' = p.curr
    /\ onAdd' = p.onAdd

\* Lines 187-192: a fresh root; an empty argument returns at once.
Parse(toks) ==
    /\ tokens' = toks
    /\ nodes' = <<NewNode(NODE_GROUP)>>
    /\ root' = 1
    /\ curr' = 1
    /\ rest' = toks
    /\ groups' = <<>>
    /\ i' = 0
    /\ lastLevel' = 0
    /\ levelDiff' = 0
    /\ pc' = IF Len(toks) = 0 THEN "done" ELSE "split"
    /\ pre' = Step("Parse")
    /\ lineMark' = 1
    /\ anchor' = <<>>
    /\ memo' = IF memo.set /\ toks # memo.tokens
               THEN [memo EXCEPT !.between = TRUE]
               ELSE memo
    /\ UNCHANGED onAdd
    /\ UNCHANGED builderVars

\* A call on a new parser.
Call ==
    /\ pc = "idle"
    /\ \E toks \in Inputs : Parse(toks)

\* Lines 196-201: one iteration of the grouping loop.  tokens[consumed+1:]
\* panics when consumed+1 exceeds len(tokens).
SplitGroup ==
    /\ pc = "split"
    /\ Len(rest) > 0
    /\ LET r == NewTokenGroup(rest)
       IN  IF r.consumed + 1 > Len(rest)
           THEN /\ pc' = "panic"
                /\ UNCHANGED <<rest, groups>>
           ELSE /\ rest' = SubSeq(rest, r.consumed + 2, Len(rest))
                /\ groups' = Append(groups, r.group)
                /\ pc' = "split"
    /\ pre' = Step("SplitGroup")
    /\ UNCHANGED <<tokens, i, lastLevel, levelDiff, nodes, root, curr, onAdd,
                   lineMark, anchor, memo>>
    /\ UNCHANGED builderVars

\* Lines 196, 203: the grouping loop ends.
SplitDone ==
    /\ pc = "split"
    /\ Len(rest) = 0
    /\ pc' = "line"
    /\ lastLevel' = 0
    /\ i' = 0
    /\ pre' = Step("SplitDone")
    /\ UNCHANGED <<tokens, rest, groups, levelDiff, nodes, root, curr, onAdd,
                   lineMark, anchor, memo>>
    /\ UNCHANGED builderVars

group == groups[i + 1]

Dirty(a) == [d \in 1..Len(a) |-> [a[d] EXCEPT !.clean = FALSE]]

\* Mutant: the empty line records its own level as the previous level.
EmptyLine_RecordsLevel ==
    /\ pc = "line"
    /\ i < Len(groups)
    /\ Len(group.tokens) = 0 /\ i > 0
    /\ SetParser(addNode(closeAllGroups(P), NODE_BREAK, "").p)
    /\ i' = i + 1
    /\ lastLevel' = group.level
    /\ pre' = Step("EmptyLine")
    /\ lineMark' = Len(nodes)
    /\ anchor' = Dirty(anchor)
    /\ UNCHANGED <<pc, tokens, rest, groups, levelDiff, memo>>
    /\ UNCHANGED builderVars

\* Lines 206-210: an empty line that is not the first one.
EmptyLine ==
    /\ pc = "line"
    /\ i < Len(groups)
    /\ Len(group.tokens) = 0 /\ i > 0
    /\ SetParser(addNode(closeAllGroups(P), NODE_BREAK, "").p)
    /\ i' = i + 1
    /\ pre' = Step("EmptyLine")
    /\ lineMark' = Len(nodes)
    /\ anchor' = Dirty(anchor)
    /\ UNCHANGED <<pc, tokens, rest, groups, lastLevel, levelDiff, memo>>
    /\ UNCHANGED builderVars

\* Line 213: the level difference of a line that is processed.
BeginLine ==
    /\ pc = "line"
    /\ i < Len(groups)
    /\ ~(Len(group.tokens) = 0 /\ i > 0)
    /\ levelDiff' = group.level - lastLevel
    /\ pc' = "level"
    /\ pre' = Step("BeginLine")
    /\ lineMark' = Len(nodes)
    /\ UNCHANGED <<tokens, rest, groups, i, lastLevel, nodes, root, curr, onAdd,
                   anchor, memo>>
    /\ UNCHANGED builderVars

\* The indentation depth the level loops have reached.
Depth == group.level - levelDiff

\* Lines 214-217: one iteration of the opening loop.
OpenGroupStep ==
    /\ pc = "level"
    /\ levelDiff > 0
    /\ SetParser(openGroup(P))
    /\ levelDiff' = levelDiff - 1
    /\ pre' = Step("openGroup")
    /\ anchor' = Append(SubSeq(anchor, 1, Depth), [node |-> curr, clean |-> TRUE])
    /\ UNCHANGED <<pc, tokens, rest, groups, i, lastLevel, lineMark, memo>>
    /\ UNCHANGED builderVars

\* Lines 218-221: one iteration of the closing loop.
CloseGroupStep ==
    /\ pc = "level"
    /\ levelDiff < 0
    /\ SetParser(closeGroup(P))
    /\ levelDiff' = levelDiff + 1
    /\ pre' = Step("closeGroup")
    /\ UNCHANGED <<pc, tokens, rest, groups, i, lastLevel, lineMark, anchor, memo>>
    /\ UNCHANGED builderVars

\* Replace the cursor of the current group.
Consume(n) == [groups EXCEPT ![i + 1] = Advance(@, n)]

\* Mutant: every block item opens a Block of its own.
blockContainer_AlwaysNew(p) ==
    LET r == addNode(p, NODE_BLOCK, "")
    IN  [r.p EXCEPT !.curr = r.node]

\* Lines 226-228: make curr the Block the item's text belongs to.
blockContainer(p) ==
    IF p.nodes[p.curr].Kind # NODE_BLOCK
    THEN LET r == addNode(p, NODE_BLOCK, "")
         IN  [r.p EXCEPT !.curr = r.node]
    ELSE p

\* Lines 224-230: a block item at the head of the line.
BlockItemStep ==
    /\ pc = "level"
    /\ levelDiff = 0
    /\ IF Are(Tokens(group), <<TOKEN_BLOCKITEM>>)
       THEN LET item == Current(group)
            IN  /\ SetParser(addNode(blockContainer(P), NODE_TEXT, item.Text).p)
                /\ groups' = Consume(1)
       ELSE UNCHANGED <<nodes, root, curr, onAdd, groups>>
    /\ pc' = "list"
    /\ pre' = Step("BlockItem")
    /\ UNCHANGED <<tokens, rest, i, lastLevel, levelDiff, lineMark, anchor, memo>>
    /\ UNCHANGED builderVars

\* Mutant: every list item opens a List of its own.
listContainer_AlwaysNew(p) ==
    LET r == addNode(p, NODE_LIST, "")
    IN  [r.p EXCEPT !.curr = r.node]

\* Mutant: an open ListItem is not closed before the next item is added.
listContainer_NoAscend(p) ==
    LET kind == p.nodes[p.curr].Kind
    IN  IF kind \in {NODE_LISTITEM, NODE_LIST}
        THEN p
        ELSE LET r == addNode(p, NODE_LIST, "")
             IN  [r.p EXCEPT !.curr = r.node]

\* Lines 237-249: make curr the List the new item belongs to.
listContainer(p) ==
    LET kind == p.nodes[p.curr].Kind
    IN  IF kind = NODE_LISTITEM
        THEN [p EXCEPT !.curr = p.nodes[p.curr].Parent]
        ELSE IF kind = NODE_LIST
        THEN p
        ELSE LET r == addNode(p, NODE_LIST, "")
             IN  [r.p EXCEPT !.curr = r.node]

\* Lines 233-251: a list item at the cursor.  Ascending from a ListItem
\* that has no parent would make the following addNode dereference nil.
ListItemStep ==
    /\ pc = "list"
    /\ IF Are(Tokens(group), <<TOKEN_LISTITEM>>)
       THEN LET item == Current(group)
                p1   == listContainer(P)
            IN  IF p1.curr = Nil
                THEN /\ pc' = "panic"
                     /\ UNCHANGED <<nodes, root, curr, onAdd, groups>>
                ELSE LET r == addNode(p1, NODE_LISTITEM, item.Text)
                     IN  /\ SetParser([r.p EXCEPT !.curr = r.node])
                         /\ groups' = Consume(1)
                         /\ pc' = "hook"
       ELSE /\ pc' = "hook"
            /\ UNCHANGED <<nodes, root, curr, onAdd, groups>>
    /\ pre' = Step("ListItem")
    /\ UNCHANGED <<tokens, rest, i, lastLevel, levelDiff, lineMark, anchor, memo>>
    /\ UNCHANGED builderVars

\* Lines 253-259: arm the hook when the last node is a text node.
ArmHook ==
    /\ pc = "hook"
    /\ onAdd' = IF IsTextNode(nodes, lastNode(P)) THEN TRUE ELSE onAdd
    /\ pc' = "inline"
    /\ pre' = Step("ArmHook")
    /\ UNCHANGED <<tokens, rest, groups, i, lastLevel, levelDiff, nodes, root,
                   curr, lineMark, anchor, memo>>
    /\ UNCHANGED builderVars

\* What the token actions leave alone.
TokenFrame ==
    /\ UNCHANGED <<pc, tokens, rest, i, lastLevel, levelDiff, lineMark, memo>>
    /\ UNCHANGED builderVars

\* Lines 262-266: Next() returned a token of this kind.
TokenIs(kind) == pc = "inline" /\ ~AtEnd(group) /\ Current(group).Kind = kind

\* Lines 267-269.
SectionToken ==
    /\ TokenIs(TOKEN_SECTION)
    /\ SetParser(addNode(closeAllGroups(P), NODE_SECTION, Current(group).Text).p)
    /\ groups' = Consume(1)
    /\ pre' = Step("Section")
    /\ anchor' = Dirty(anchor)
    /\ TokenFrame

\* Lines 270-271.
TextToken ==
    /\ TokenIs(TOKEN_TEXT)
    /\ SetParser(addNode(P, NODE_TEXT, Current(group).Text).p)
    /\ groups' = Consume(1)
    /\ pre' = Step("Text")
    /\ UNCHANGED anchor
    /\ TokenFrame

\* Mutant: a delimiter followed by a Text pairs without a closing delimiter.
Delimiter_NoClosing(token, kind) ==
    LET after == Advance(group, 1)
    IN  IF Are(Tokens(after), <<TOKEN_TEXT>>)
        THEN /\ SetParser(addNode(P, kind, Current(after).Text).p)
             /\ groups' = Consume(IF Are(Tokens(after), <<TOKEN_TEXT, token>>)
                                  THEN 3 ELSE 2)
        ELSE /\ groups' = Consume(1)
             /\ UNCHANGED <<nodes, root, curr, onAdd>>

\* Lines 273-276 and 278-281: a delimiter that opens (Text, delimiter)
\* becomes one node of the given kind; any other delimiter is dropped.
Delimiter(token, kind) ==
    LET after == Advance(group, 1)
    IN  IF Are(Tokens(after), <<TOKEN_TEXT, token>>)
        THEN /\ SetParser(addNode(P, kind, Current(after).Text).p)
             /\ groups' = Consume(3)
        ELSE /\ groups' = Consume(1)
             /\ UNCHANGED <<nodes, root, curr, onAdd>>

\* Lines 272-276.
StarToken ==
    /\ TokenIs(TOKEN_STAR)
    /\ Delimiter(TOKEN_STAR, NODE_TEXTBOLD)
    /\ pre' = Step("Star")
    /\ UNCHANGED anchor
    /\ TokenFrame

\* Lines 277-281.
UnderlineToken ==
    /\ TokenIs(TOKEN_UNDERLINE)
    /\ Delimiter(TOKEN_UNDERLINE, NODE_TEXTUNDERLINE)
    /\ pre' = Step("Underline")
    /\ UNCHANGED anchor
    /\ TokenFrame

\* Line 266: the switch has no case for the remaining kinds.
OtherToken ==
    /\ pc = "inline" /\ ~AtEnd(group)
    /\ Current(group).Kind \in
         {TOKEN_INDENT, TOKEN_EOL, TOKEN_LISTITEM, TOKEN_BLOCKITEM}
    /\ groups' = Consume(1)
    /\ pre' = Step("Other")
    /\ UNCHANGED <<nodes, root, curr, onAdd, anchor>>
    /\ TokenFrame

\* Mutant: a pending hook survives the line.
clearHook_Keep(p) == p

\* Lines 285-287: drop a hook that is still pending.
clearHook(p) == IF p.onAdd THEN [p EXCEPT !.onAdd = FALSE] ELSE p

\* Lines 263-264 and 285-289: the line is drained.
LineEnd ==
    /\ pc = "inline"
    /\ AtEnd(group)
    /\ onAdd' = clearHook(P).onAdd
    /\ lastLevel' = group.level
    /\ i' = i + 1
    /\ pc' = "line"
    /\ pre' = Step("LineEnd")
    /\ UNCHANGED <<tokens, rest, groups, levelDiff, nodes, root, curr, lineMark,
                   anchor, memo>>
    /\ UNCHANGED builderVars

\* Lines 204, 291: the range loop is over.
ParseReturn ==
    /\ pc = "line"
    /\ i >= Len(groups)
    /\ pc' = "done"
    /\ pre' = Step("Return")
    /\ UNCHANGED <<tokens, rest, groups, i, lastLevel, levelDiff, nodes, root,
                   curr, onAdd, lineMark, anchor, memo>>
    /\ UNCHANGED builderVars

Steps ==
    \/ SplitGroup
    \/ SplitDone
    \/ EmptyLine
    \/ BeginLine
    \/ OpenGroupStep
    \/ CloseGroupStep
    \/ BlockItemStep
    \/ ListItemStep
    \/ ArmHook
    \/ SectionToken
    \/ TextToken
    \/ StarToken
    \/ UnderlineToken
    \/ OtherToken
    \/ LineEnd
    \/ ParseReturn

Next == Call \/ Steps

\* A further call on a parser that has returned from a call (mango.go
\* keeps one Parser per Builder).
CallAgain ==
    /\ pc \in {"idle", "done"}
    /\ \E toks \in ReuseInputs : Parse(toks)

\* History only: remember the call that has just returned.
Remember ==
    /\ pc = "done"
    /\ ~memo.set
    /\ memo' = [set |-> TRUE, tokens |-> tokens, tree |-> Tree(nodes, root),
                between |-> FALSE]
    /\ UNCHANGED <<pc, tokens, rest, groups, i, lastLevel, levelDiff, nodes,
                   root, curr, onAdd, pre, lineMark, anchor>>
    /\ UNCHANGED builderVars

NextReuse == CallAgain \/ Remember \/ Steps

SpecReuse == Init /\ [][NextReuse]_vars

Spec == Init /\ [][Next]_vars

TypeOK ==
    /\ pc \in {"idle", "split", "line", "level", "list", "hook", "inline",
               "done", "panic"}
    /\ onAdd \in BOOLEAN
    /\ curr \in 0..Len(nodes)
    /\ root \in 0..1

\* ----------------------------------------------------------- parseOptions
\* The Option a flag call yields; Line stands for the call's source line.
NewOptionFromCallExpr(call, line) ==
    [Variable |-> call.Variable, Name |-> call.Name, Short |-> "",
     Type |-> "String", Usage |-> "use", Doc |-> "", Line |-> line]

\* reg.merge(opt): the second name bound to the variable is kept with the
\* registered option.
merge(reg, opt) == IF reg.Short = "" THEN [reg EXCEPT !.Short = opt.Name] ELSE reg

\* Mutant: a merged option is appended to the list as well.
register_AlwaysAppend(opts, bnd, opt) ==
    IF opt.Variable # "" /\ opt.Variable \in DOMAIN bnd
    THEN [options |-> Append([opts EXCEPT ![bnd[opt.Variable]] = merge(@, opt)], opt),
          bound |-> bnd]
    ELSE [options |-> Append(opts, opt),
          bound |-> IF opt.Variable # ""
                    THEN [v \in DOMAIN bnd \cup {opt.Variable} |->
                             IF v = opt.Variable THEN Len(opts) + 1 ELSE bnd[v]]
                    ELSE bnd]

\* Lines 99-112: merge into the option bound to the variable, or register
\* the variable and append.
register(opts, bnd, opt) ==
    IF opt.Variable # "" /\ opt.Variable \in DOMAIN bnd
    THEN [options |-> [opts EXCEPT ![bnd[opt.Variable]] = merge(@, opt)],
          bound |-> bnd]
    ELSE [options |-> Append(opts, opt),
          bound |-> IF opt.Variable # ""
                    THEN [v \in DOMAIN bnd \cup {opt.Variable} |->
                             IF v = opt.Variable THEN Len(opts) + 1 ELSE bnd[v]]
                    ELSE bnd]

\* The call expressions a file can hold: calls that are no flag
\* definitions, and flag definitions with or without a bound variable and
\* with or without a comment on the line before.
CallExprs ==
    {[flag |-> FALSE, Variable |-> "", Name |-> "", comment |-> ""]}
    \cup [flag : {TRUE}, Variable : {"", "u", "v"}, Name : {"a", "b"},
          comment : {"", "c"}]

CallInputs == Seqs(CallExprs, MaxCalls)

\* A File whose source holds these call expressions, before parseOptions.
InitOptions ==
    /\ pc = "idle"
    /\ tokens = <<>> /\ rest = <<>> /\ groups = <<>>
    /\ i = 0 /\ lastLevel = 0 /\ levelDiff = 0
    /\ nodes = <<>> /\ root = Nil /\ curr = Nil /\ onAdd = FALSE
    /\ pre = NoStep /\ lineMark = 0 /\ anchor = <<>> /\ memo = NoMemo
    /\ bpc = "inspect"
    /\ calls \in CallInputs
    /\ inspected = 0
    /\ options = <<>>
    /\ bound = [v \in {} |-> 0]
    /\ fileOptions = <<>>
    /\ optPlain = FALSE
    /\ fed = 0
    /\ rendered = <<>>

\* Lines 89-115: the function ast.Inspect calls for one call expression.
InspectCall ==
    /\ bpc = "inspect"
    /\ inspected < Len(calls)
    /\ LET call == calls[inspected + 1]
           new  == NewOptionFromCallExpr(call, inspected + 1)
           opt  == IF call.comment # "" THEN [new EXCEPT !.Doc = call.comment] ELSE new
           r    == register(options, bound, opt)
       IN  IF call.flag
           THEN options' = r.options /\ bound' = r.bound
           ELSE UNCHANGED <<options, bound>>
    /\ inspected' = inspected + 1
    /\ UNCHANGED <<bpc, calls, fileOptions, optPlain, fed, rendered>>
    /\ UNCHANGED parserVars

\* Line 118.
ParseOptionsReturn ==
    /\ bpc = "inspect"
    /\ inspected = Len(calls)
    /\ fileOptions' = options
    /\ bpc' = "parsed"
    /\ UNCHANGED <<calls, inspected, options, bound, optPlain, fed, rendered>>
    /\ UNCHANGED parserVars

NextOptions == InspectCall \/ ParseOptionsReturn

SpecOptions == InitOptions /\ [][NextOptions]_vars

\* ------------------------------------------------------------ feedOptions
\* Tokenizer.TokenizeString: fails on malformed text, yields no token for
\* the empty text.
TokenizeString(text) ==
    IF text = "bad" THEN [tokens |-> <<>>, err |-> TRUE]
    ELSE IF text = "" THEN [tokens |-> <<>>, err |-> FALSE]
    ELSE [tokens |-> <<NewTokenWithText(TOKEN_TEXT, text), NewToken(TOKEN_EOL)>>,
          err |-> FALSE]

\* strings.ToLower on the type names in use.
ToLower(str) ==
    CASE str = "Bool" -> "bool"
      [] str = "String" -> "string"
      [] OTHER -> str

\* A call on the Renderer.
Rendering(op, arg) == [op |-> op, arg |-> arg]

textHead(opt) ==
    IF Len(opt.Short) > 0 THEN "-" \o opt.Short \o ", -" \o opt.Name
    ELSE "-" \o opt.Name

textBody(opt) == IF Len(opt.Doc) > 0 THEN opt.Doc ELSE opt.Usage

textType(opt) == IF opt.Type # "Bool" THEN "<" \o ToLower(opt.Type) \o ">" ELSE ""

\* Lines 145-152: the Renderer calls for an option with these tokens.
renderOption(opt, toks) ==
    <<Rendering("TextBold", textHead(opt))>>
    \o (IF Len(textType(opt)) > 0 THEN <<Rendering("Text", textType(opt))>> ELSE <<>>)
    \o (IF Len(toks) > 0 THEN <<Rendering("Render", toks)>> ELSE <<>>)
    \o <<Rendering("Break", "")>>

\* Mutant: the head is written before the body is tokenized.
feedOption_HeadFirst(opt, plain) ==
    LET plainTokens == <<NewToken(TOKEN_INDENT),
                         NewTokenWithText(TOKEN_TEXT, textBody(opt)),
                         NewToken(TOKEN_EOL)>>
        r == TokenizeString(textBody(opt))
    IN  IF plain THEN renderOption(opt, plainTokens)
        ELSE IF r.err THEN <<Rendering("TextBold", textHead(opt))>>
        ELSE renderOption(opt, r.tokens)

\* Lines 108-152: the Renderer calls of one iteration of the loop.
feedOption(opt, plain) ==
    LET plainTokens == <<NewToken(TOKEN_INDENT),
                         NewTokenWithText(TOKEN_TEXT, textBody(opt)),
                         NewToken(TOKEN_EOL)>>
        r == TokenizeString(textBody(opt))
    IN  IF plain THEN renderOption(opt, plainTokens)
        ELSE IF r.err THEN <<>>
        ELSE renderOption(opt, r.tokens)

\* The options a File can hold when the manual is built.
FeedOptions ==
    [Variable : {""}, Name : {"n"}, Short : {"", "s"}, Type : {"Bool", "String"},
     Usage : {"", "use"}, Doc : {"", "bad"}, Line : {1}]

\* A Builder whose File holds these options, before feedOptions.
InitFeed ==
    /\ pc = "idle"
    /\ tokens = <<>> /\ rest = <<>> /\ groups = <<>>
    /\ i = 0 /\ lastLevel = 0 /\ levelDiff = 0
    /\ nodes = <<>> /\ root = Nil /\ curr = Nil /\ onAdd = FALSE
    /\ pre = NoStep /\ lineMark = 0 /\ anchor = <<>> /\ memo = NoMemo
    /\ bpc = "feed"
    /\ calls = <<>>
    /\ inspected = 0
    /\ options = <<>>
    /\ bound = [v \in {} |-> 0]
    /\ fileOptions \in Seqs(FeedOptions, MaxOptions)
    /\ optPlain \in BOOLEAN
    /\ fed = 0
    /\ rendered = <<>>

\* Lines 102-106: return when there is no option, else start the section.
FeedStart ==
    /\ bpc = "feed"
    /\ IF Len(fileOptions) = 0
       THEN bpc' = "fed" /\ UNCHANGED rendered
       ELSE bpc' = "options" /\ rendered' = Append(rendered, Rendering("Section", "Options"))
    /\ UNCHANGED <<calls, inspected, options, bound, fileOptions, optPlain, fed>>
    /\ UNCHANGED parserVars

\* Lines 107-153: one iteration of the loop over the options.
FeedOption ==
    /\ bpc = "options"
    /\ fed < Len(fileOptions)
    /\ rendered' = rendered \o feedOption(fileOptions[fed + 1], optPlain)
    /\ fed' = fed + 1
    /\ UNCHANGED <<bpc, calls, inspected, options, bound, fileOptions, optPlain>>
    /\ UNCHANGED parserVars

\* Lines 107, 154: the loop is over.
FeedReturn ==
    /\ bpc = "options"
    /\ fed = Len(fileOptions)
    /\ bpc' = "fed"
    /\ UNCHANGED <<calls, inspected, options, bound, fileOptions, optPlain, fed,
                   rendered>>
    /\ UNCHANGED parserVars

NextFeed == FeedStart \/ FeedOption \/ FeedReturn

SpecFeed == InitFeed /\ [][NextFeed]_vars

\* ================================================================== claims
\* Vocabulary of the claims, stated on the arena and independent of the
\* operators above.
KindsOf(toks) == [k \in 1..Len(toks) |-> toks[k].Kind]

ChildKinds(n) == [k \in 1..Len(nodes[n].Childs) |-> nodes[nodes[n].Childs[k]].Kind]

ChildTexts(n) == [k \in 1..Len(nodes[n].Childs) |-> nodes[nodes[n].Childs[k]].Text]

TextBearing == {NODE_TEXT, NODE_TEXTBOLD, NODE_TEXTUNDERLINE}

\* The nodes the step just taken has allocated, in allocation order.
Added == [k \in 1..(Len(nodes) - pre.n) |-> pre.n + k]

AddedKinds == [k \in 1..Len(Added) |-> nodes[Added[k]].Kind]

\* The last child of curr exists and is text-bearing, or curr has no child
\* and is itself text-bearing.
LastIsText ==
    LET ch == nodes[curr].Childs
    IN  IF Len(ch) > 0 THEN nodes[ch[Len(ch)]].Kind \in TextBearing
        ELSE nodes[curr].Kind \in TextBearing

TokenSteps == {"Section", "Text", "Star", "Underline", "Other"}

BoldThenText == <<TOKEN_STAR, TOKEN_TEXT, TOKEN_STAR, TOKEN_TEXT, TOKEN_EOL>>

\* C1 as stated: the line [Bold-delimiter, Text(a), Bold-delimiter, Text(b)]
\* yields the siblings TextBold(a), Space, Text(b).
C1_SpaceBetweenAdjacent ==
    (pc = "done" /\ KindsOf(tokens) = BoldThenText)
        => ChildKinds(root) = <<NODE_TEXTBOLD, NODE_SPACE, NODE_TEXT>>

\* C1 amended: a Space is inserted only by the armed hook.  The hook is armed
\* exactly when the last node under curr is text-bearing as the line's
\* inline tokens begin; a token that adds a text-bearing node while the hook
\* is armed adds a Space right before it, and a token that finds the hook
\* unarmed adds no Space.  So [Bold-delimiter, Text(a), Bold-delimiter,
\* Text(b)] as the only line yields TextBold(a), Text(b) and no Space.
C1_SpaceOnlyWhenArmed ==
    /\ pre.op = "ArmHook" => (onAdd <=> LastIsText)
    /\ (pre.op \in TokenSteps /\ Len(Added) > 0) =>
          LET new == nodes[Len(nodes)]
              ch  == nodes[curr].Childs
          IN  IF pre.onAdd /\ new.Kind \in TextBearing
              THEN /\ AddedKinds = <<NODE_SPACE, new.Kind>>
                   /\ SubSeq(ch, Len(ch) - 1, Len(ch)) = Added
              ELSE /\ Len(Added) = 1
                   /\ new.Kind # NODE_SPACE
                   /\ ch[Len(ch)] = Len(nodes)
    /\ (pc = "done" /\ KindsOf(tokens) = BoldThenText) =>
          /\ ChildKinds(root) = <<NODE_TEXTBOLD, NODE_TEXT>>
          /\ ChildTexts(root) = <<tokens[2].Text, tokens[4].Text>>

\* Witness of C1: the documented line has been parsed.
C1_Witness ==
    /\ pc = "done"
    /\ KindsOf(tokens) = BoldThenText
    /\ ChildKinds(root) = <<NODE_TEXTBOLD, NODE_TEXT>>

\* C2 as stated: Parse never aborts the process, also when the last line
\* has no EndOfLine token.
C2_NeverAborts == pc # "panic"

RECURSIVE Path(_)
\* The nodes from n up to the top of its tree, n included.
Path(n) == IF nodes[n].Parent = Nil THEN {n} ELSE {n} \cup Path(nodes[n].Parent)

\* curr is the node that was current before the group of the depth just
\* closed was opened.
BackAtAnchor == curr = anchor[Depth + 1].node

\* An increase by k has opened exactly k Group nodes, each inside the one
\* before it, the first under the node that was current.
OpenedGroups ==
    (pc = "level" /\ levelDiff = 0 /\ group.level > lastLevel) =>
        LET k == group.level - lastLevel
        IN  /\ Len(nodes) = lineMark + k
            /\ \A d \in 1..k :
                  /\ nodes[lineMark + d].Kind = NODE_GROUP
                  /\ nodes[lineMark + d].Parent =
                        IF d = 1 THEN anchor[lastLevel + 1].node
                        ELSE lineMark + d - 1
            /\ curr = lineMark + k

\* C3 as stated: an increase by k opens exactly k Group nodes, and each level
\* closed later brings curr back to the node that was current before that
\* level was opened.
C3_RoundTrip ==
    /\ OpenedGroups
    /\ pre.op = "closeGroup" => BackAtAnchor

\* C3 amended: the same, provided no empty line and no Section token has
\* been processed since the level was opened (either one resets curr to the
\* root, and closing the level then leaves curr at the root).
C3_RoundTripNoReset ==
    /\ OpenedGroups
    /\ (pre.op = "closeGroup" /\ anchor[Depth + 1].clean) => BackAtAnchor
    /\ (pre.op = "closeGroup" /\ ~anchor[Depth + 1].clean) => curr = root

\* Witness of C3: two levels opened under a ListItem have been closed again.
C3_Witness ==
    /\ pre.op = "closeGroup"
    /\ levelDiff = 0
    /\ lastLevel - group.level = 2
    /\ anchor[Depth + 1].clean
    /\ BackAtAnchor
    /\ nodes[curr].Kind = NODE_LISTITEM

\* No Group other than the root is on the way from n up to the root.
OnlyRootEncloses(n) == \A g \in Path(n) : nodes[g].Kind = NODE_GROUP => g = root

\* During and after a call the root has no parent and is an ancestor of curr.
RootOnTop == root # Nil => (nodes[root].Parent = Nil /\ root \in Path(curr))

\* C4 as stated: closing a level when only the root encloses curr leaves
\* curr unchanged; the root never has a parent and stays reachable.
C4_NoOverclose ==
    /\ (pre.op = "closeGroup" /\ OnlyRootEncloses(pre.curr)) => curr = pre.curr
    /\ RootOnTop

\* C4 amended: closing a level when only the root encloses curr leaves curr
\* at the root: nothing changes when curr is the root, and otherwise the open
\* List, ListItem and Block nodes are closed; the root never has a parent and
\* stays reachable.
C4_CloseStopsAtRoot ==
    /\ (pre.op = "closeGroup" /\ OnlyRootEncloses(pre.curr)) =>
          /\ curr = root
          /\ Len(nodes) = pre.n
          /\ onAdd = pre.onAdd
    /\ RootOnTop

\* Witness of C4: a level was closed while curr was the root.
C4_Witness ==
    /\ pre.op = "closeGroup"
    /\ pre.curr = root
    /\ curr = root
    /\ Len(nodes) > 1

\* The line before the current one is a list-item line at the level of the
\* current one and holds no Section token.
AfterListLine ==
    /\ i > 0
    /\ Len(groups[i].tokens) > 0
    /\ groups[i].tokens[1].Kind = TOKEN_LISTITEM
    /\ groups[i].level = group.level
    /\ \A k \in 1..Len(groups[i].tokens) : groups[i].tokens[k].Kind # TOKEN_SECTION

\* C5: the list step appends one ListItem carrying the marker's text under
\* a List and opens a new List only when curr was neither a ListItem nor a
\* List; after a list-item line at the same level the new ListItem follows
\* the previous line's ListItem under the same List.
C5_ListGrouping ==
    (pre.op = "ListItem" /\ pc = "hook" /\ Len(Added) > 0) =>
        LET list == nodes[curr].Parent
            ch   == nodes[list].Childs
            was  == nodes[pre.curr].Kind
        IN  /\ curr = Len(nodes)
            /\ nodes[curr].Kind = NODE_LISTITEM
            /\ nodes[curr].Text = group.tokens[pre.pos + 1].Text
            /\ nodes[list].Kind = NODE_LIST
            /\ ch[Len(ch)] = curr
            /\ IF was \in {NODE_LISTITEM, NODE_LIST}
               THEN AddedKinds = <<NODE_LISTITEM>>
               ELSE AddedKinds = <<NODE_LIST, NODE_LISTITEM>> /\ ch = <<curr>>
            /\ (AfterListLine /\ pre.pos = 0) =>
                  /\ was = NODE_LISTITEM
                  /\ nodes[pre.curr].Text = groups[i].tokens[1].Text
                  /\ nodes[pre.curr].Parent = list
                  /\ Len(ch) >= 2
                  /\ ch[Len(ch) - 1] = pre.curr

\* Witness of C5: the second of two list-item lines has joined the List of
\* the first.
C5_Witness ==
    /\ pre.op = "ListItem"
    /\ Len(Added) = 1
    /\ AfterListLine
    /\ ChildKinds(nodes[curr].Parent) = <<NODE_LISTITEM, NODE_LISTITEM>>
    /\ nodes[nodes[curr].Parent].Childs = <<pre.curr, curr>>

DelimiterNode(kind) == IF kind = TOKEN_STAR THEN NODE_TEXTBOLD ELSE NODE_TEXTUNDERLINE

\* The delimiter the last step saw is followed by (Text, same delimiter).
Paired ==
    LET ts == group.tokens
    IN  /\ pre.pos + 3 <= Len(ts)
        /\ ts[pre.pos + 2].Kind = TOKEN_TEXT
        /\ ts[pre.pos + 3].Kind = ts[pre.pos + 1].Kind

\* C6: a delimiter followed by (Text, same delimiter) consumes the three
\* tokens and appends exactly one TextBold or TextUnderline carrying the
\* inner text; any other delimiter consumes itself only and changes nothing,
\* so [Bold-delimiter, Text(word)] yields only Text(word).
C6_Pairing ==
    /\ pre.op \in {"Star", "Underline"} =>
          LET ts   == group.tokens
              kind == DelimiterNode(ts[pre.pos + 1].Kind)
          IN  IF Paired
              THEN /\ group.pos = pre.pos + 3
                   /\ nodes[Len(nodes)].Kind = kind
                   /\ nodes[Len(nodes)].Text = ts[pre.pos + 2].Text
                   /\ nodes[Len(nodes)].Parent = curr
                   /\ AddedKinds = IF pre.onAdd THEN <<NODE_SPACE, kind>> ELSE <<kind>>
                   /\ curr = pre.curr
              ELSE /\ group.pos = pre.pos + 1
                   /\ Len(Added) = 0
                   /\ curr = pre.curr
                   /\ onAdd = pre.onAdd
                   /\ pc = "inline"
    /\ (pc = "done" /\ KindsOf(tokens) \in {<<TOKEN_STAR, TOKEN_TEXT, TOKEN_EOL>>,
                                            <<TOKEN_UNDERLINE, TOKEN_TEXT, TOKEN_EOL>>}) =>
          /\ ChildKinds(root) = <<NODE_TEXT>>
          /\ ChildTexts(root) = <<tokens[2].Text>>
          /\ Len(nodes) = 2

\* Witness of C6: an underline pair was consumed while the hook was armed.
C6_Witness ==
    /\ pre.op = "Underline"
    /\ Paired
    /\ pre.onAdd
    /\ AddedKinds = <<NODE_SPACE, NODE_TEXTUNDERLINE>>

RECURSIVE Top(_)
\* The child of the root that n lies in (n is not the root).
Top(n) == IF nodes[n].Parent = root THEN n ELSE Top(nodes[n].Parent)

\* The position of a child of n among its siblings.
Pos(n, c) == CHOOSE k \in 1..Len(nodes[n].Childs) : nodes[n].Childs[k] = c

Breaks == {n \in 1..Len(nodes) : nodes[n].Kind = NODE_BREAK}

\* C7: an empty line that is not the first line sets curr to the root and
\* appends a Break as the last child of the root; every Break is a child of
\* the root, one per such line, and what the lines before it produced lies
\* in the root's children before it, what later lines produce in the
\* children after it.
C7_BreakUnderRoot ==
    /\ pre.op = "EmptyLine" =>
          /\ curr = root
          /\ AddedKinds = <<NODE_BREAK>>
          /\ nodes[root].Childs[Len(nodes[root].Childs)] = Len(nodes)
    /\ \A b \in Breaks :
          /\ nodes[b].Parent = root
          /\ \A n \in 2..Len(nodes) :
                /\ n < b => Pos(root, Top(n)) < Pos(root, b)
                /\ n > b => Pos(root, Top(n)) > Pos(root, b)
    /\ pc = "done" =>
          Cardinality(Breaks) =
              Cardinality({k \in 2..Len(groups) : Len(groups[k].tokens) = 0})

\* Witness of C7: a nested line, an empty line and another line of content.
C7_Witness ==
    /\ pc = "done"
    /\ Len(groups) = 3
    /\ groups[1].level > 0 /\ Len(groups[1].tokens) > 0
    /\ Len(groups[2].tokens) = 0
    /\ Len(groups[3].tokens) > 0
    /\ ChildKinds(root) = <<NODE_GROUP, NODE_BREAK, NODE_TEXT>>
    /\ Len(nodes[2].Childs) > 0

\* C8: every Section is a child of the root, and the node allocated next
\* after a Section is a child of the root too (until then curr is the root).
C8_SectionReset ==
    \A n \in 1..Len(nodes) :
        nodes[n].Kind = NODE_SECTION =>
            /\ nodes[n].Parent = root
            /\ n < Len(nodes) => nodes[n + 1].Parent = root
            /\ n = Len(nodes) => curr = root

\* Witness of C8: a Section three Group levels deep and a Text after it.
C8_Witness ==
    /\ pc = "done"
    /\ Len(groups) = 2
    /\ groups[1].level = 3 /\ groups[2].level = 3
    /\ KindsOf(groups[1].tokens) = <<TOKEN_SECTION>>
    /\ ChildKinds(root) = <<NODE_GROUP, NODE_SECTION, NODE_TEXT>>
    /\ nodes[4].Parent = 3 /\ nodes[3].Parent = 2 /\ nodes[2].Parent = root

\* C9: a call that returns on the tokens of a remembered earlier call of
\* the same parser returns a tree deep-equal to the remembered one, whatever
\* was parsed in between, and a returning call leaves no hook behind.
C9_Deterministic ==
    pc = "done" =>
        /\ ~onAdd
        /\ (memo.set /\ memo.tokens = tokens) => Tree(nodes, root) = memo.tree

\* Witness of C9: the remembered tokens were parsed again after a call on
\* other tokens, and the tree holds a Space.
C9_Witness ==
    /\ pc = "done"
    /\ pre.op = "Return"
    /\ memo.set /\ memo.between
    /\ memo.tokens = tokens
    /\ Tree(nodes, root) = memo.tree
    /\ \E n \in 1..Len(nodes) : nodes[n].Kind = NODE_SPACE

Spaces(from) == {n \in (from + 1)..Len(nodes) : nodes[n].Kind = NODE_SPACE}

Texts(from) == {n \in (from + 1)..Len(nodes) : nodes[n].Kind \in TextBearing}

\* C10: the hook is unarmed when a line starts and until its inline tokens
\* begin; a step that allocates a node while the hook is armed disarms it,
\* and a Space is allocated only by such a step; the end of the line leaves
\* the hook unarmed; so no line allocates more than one Space.
C10_OneShotHook ==
    /\ pc \in {"idle", "split", "line", "level", "list", "hook", "done"} => ~onAdd
    /\ (pre.onAdd /\ Len(Added) > 0) => ~onAdd
    /\ Cardinality(Spaces(pre.n)) > 0 => (pre.onAdd /\ ~onAdd)
    /\ pre.op = "LineEnd" => ~onAdd
    /\ Cardinality(Spaces(lineMark)) <= 1

\* Witness of C10: a line that added three text-bearing nodes and one Space
\* has ended.
C10_Witness ==
    /\ pre.op = "LineEnd"
    /\ Cardinality(Texts(lineMark)) = 3
    /\ Cardinality(Spaces(lineMark)) = 1

\* C11: the root is a Group without a parent; every other node has a parent
\* and is listed among that parent's children; every listed child is a
\* node that names the listing node as its parent, and no node is listed
\* twice.  So every node but the root is listed exactly once, under its
\* parent.
C11_WellFormed ==
    root # Nil =>
        /\ nodes[root].Kind = NODE_GROUP
        /\ nodes[root].Parent = Nil
        /\ \A n \in 1..Len(nodes) :
              LET up == nodes[n].Parent
                  ch == nodes[n].Childs
              IN  /\ n # root =>
                        /\ up \in 1..Len(nodes)
                        /\ \E k \in 1..Len(nodes[up].Childs) : nodes[up].Childs[k] = n
                  /\ \A k \in 1..Len(ch) :
                        /\ ch[k] \in 1..Len(nodes)
                        /\ nodes[ch[k]].Parent = n
                        /\ \A j \in 1..(k - 1) : ch[j] # ch[k]

\* Witness of C11: a returned tree of five nodes that is three levels deep.
C11_Witness ==
    /\ pc = "done"
    /\ Len(nodes) >= 5
    /\ \E n \in 1..Len(nodes) : Cardinality(Path(n)) >= 4

\* C12: every child of a List is a ListItem, and every ListItem has a List
\* as its parent.
C12_ListShape ==
    \A n \in 1..Len(nodes) :
        /\ nodes[n].Kind = NODE_LIST =>
              \A k \in 1..Len(nodes[n].Childs) :
                  nodes[nodes[n].Childs[k]].Kind = NODE_LISTITEM
        /\ nodes[n].Kind = NODE_LISTITEM =>
              /\ nodes[n].Parent # Nil
              /\ nodes[nodes[n].Parent].Kind = NODE_LIST

\* Witness of C12: a List of two ListItems, the first of which holds a
\* child of its own.
C12_Witness ==
    /\ pc = "done"
    /\ \E n \in 1..Len(nodes) :
          /\ nodes[n].Kind = NODE_LIST
          /\ Len(nodes[n].Childs) = 2
          /\ Len(nodes[nodes[n].Childs[1]].Childs) > 0

RECURSIVE LastNonEmptyLevel(_)
\* The level of the last line among the first k that holds a token after
\* its indentation; 0 when there is none.
LastNonEmptyLevel(k) ==
    IF k = 0 THEN 0
    ELSE IF Len(groups[k].tokens) > 0 THEN groups[k].level
    ELSE LastNonEmptyLevel(k - 1)

RECURSIVE LastRecordedLevel(_)
\* The level of the last line among the first k that is not skipped as an
\* empty line, which are the non-empty lines and the first line; 0 when
\* there is none.
LastRecordedLevel(k) ==
    IF k = 0 THEN 0
    ELSE IF Len(groups[k].tokens) > 0 \/ k = 1 THEN groups[k].level
    ELSE LastRecordedLevel(k - 1)

\* The line being processed has level L > 0 and follows an empty line that
\* follows a non-empty line of level L.
SameLevelAcrossEmpty ==
    /\ i >= 2 /\ i < Len(groups)
    /\ Len(groups[i].tokens) = 0
    /\ Len(groups[i - 1].tokens) > 0
    /\ Len(group.tokens) > 0
    /\ group.level > 0
    /\ groups[i - 1].level = group.level

\* C15 as stated: the level difference of every processed line is taken
\* against the level of the last non-empty line before it, the level of
\* every empty line being ignored.
C15_AgainstLastNonEmpty ==
    pre.op = "BeginLine" => levelDiff = group.level - LastNonEmptyLevel(i)

\* C15 amended: an empty line that is not the first line leaves the
\* recorded previous level unchanged and resets curr to the root; the level
\* difference of a processed line is taken against the level of the last
\* line before it that was either non-empty or the first line of the input
\* (an empty first line is processed like a non-empty one and records its
\* level).  So a line at level L > 0, an empty line and another line at
\* level L open no Group for the third line, whose first node becomes a
\* child of the root.
C15_EmptyLineKeepsLevel ==
    /\ pc = "line" => lastLevel = LastRecordedLevel(i)
    /\ pre.op = "EmptyLine" => curr = root
    /\ pre.op = "BeginLine" => levelDiff = group.level - LastRecordedLevel(i)
    /\ (SameLevelAcrossEmpty /\ pc \in {"level", "list", "hook", "inline"}) =>
          /\ levelDiff = 0
          /\ pre.op = "BeginLine" => curr = root
          /\ Len(nodes) > lineMark =>
                /\ nodes[lineMark + 1].Parent = root
                /\ nodes[lineMark + 1].Kind # NODE_GROUP

\* Witness of C15: the third of such three lines has put its first node
\* under the root although its level is positive.
C15_Witness ==
    /\ SameLevelAcrossEmpty
    /\ pc = "inline"
    /\ Len(nodes) > lineMark
    /\ nodes[lineMark + 1].Parent = root
    /\ lastLevel = group.level

\* Every line of the input ends with an EndOfLine token.
Terminated(toks) == Len(toks) = 0 \/ Is(toks[Len(toks)], TOKEN_EOL)

EndOfLines(toks) == {k \in 1..Len(toks) : Is(toks[k], TOKEN_EOL)}

\* The token sequence the line groups formed so far stand for.
Regrouped == Concat([k \in 1..Len(groups) |-> Line(groups[k].level, groups[k].tokens)])

\* C16: for an input all of whose lines end with EndOfLine the grouping loop
\* never aborts; at its start, after each iteration and at its end the
\* groups formed so far, written back as indentation,
\* body and EndOfLine, followed by the input still to be grouped, are the
\* input, no body holding an EndOfLine or starting with an Indent; when the
\* loop has ended there is one group per EndOfLine token and nothing is
\* left; and no tokens give no groups and a root without children.
C16_LineGrouping ==
    (Terminated(tokens) /\ pre.op \in {"Parse", "SplitGroup", "SplitDone"}) =>
        /\ pre.op = "SplitGroup" => pc = "split"
        /\ tokens = Regrouped \o rest
        /\ \A k \in 1..Len(groups) :
              /\ EndOfLines(groups[k].tokens) = {}
              /\ Len(groups[k].tokens) > 0 => ~Is(groups[k].tokens[1], TOKEN_INDENT)
        /\ pc # "split" =>
              /\ rest = <<>>
              /\ Len(groups) = Cardinality(EndOfLines(tokens))
        /\ Len(tokens) = 0 =>
              /\ pc = "done"
              /\ groups = <<>>
              /\ Len(nodes) = 1 /\ nodes[root].Childs = <<>>

\* Witness of C16: two lines, the first indented twice and both with a
\* body, have been grouped.
C16_Witness ==
    /\ Terminated(tokens)
    /\ pc = "line" /\ i = 0
    /\ Len(groups) = 2
    /\ groups[1].level = 2
    /\ Len(groups[1].tokens) > 0 /\ Len(groups[2].tokens) > 0

\* The line holds a block-item marker at its head.
BlockLine(g) == Len(g.tokens) > 0 /\ Is(g.tokens[1], TOKEN_BLOCKITEM)

\* The line before the one being processed is a block-item line of the same
\* level that leaves its Block current: it holds no Section token and no
\* list marker behind the block marker.
AfterBlockLine ==
    /\ i > 0
    /\ BlockLine(groups[i])
    /\ groups[i].level = group.level
    /\ \A k \in 1..Len(groups[i].tokens) : ~Is(groups[i].tokens[k], TOKEN_SECTION)
    /\ Len(groups[i].tokens) > 1 => ~Is(groups[i].tokens[2], TOKEN_LISTITEM)

RECURSIVE OnRightmostPath(_)
\* n is the root, or the last child of a node of which the same holds.
OnRightmostPath(n) ==
    \/ n = root
    \/ /\ nodes[n].Parent # Nil
       /\ LET ch == nodes[nodes[n].Parent].Childs
          IN  Len(ch) > 0 /\ ch[Len(ch)] = n
       /\ OnRightmostPath(nodes[n].Parent)

RECURSIVE PreOrder(_)
\* The nodes below and including n, parents before children, children in
\* list order.
PreOrder(n) ==
    <<n>> \o Concat([k \in 1..Len(nodes[n].Childs) |-> PreOrder(nodes[n].Childs[k])])

RECURSIVE TextsOf(_)
\* The texts of the text-bearing nodes of a sequence of nodes.
TextsOf(ns) ==
    IF Len(ns) = 0 THEN <<>>
    ELSE (IF nodes[Head(ns)].Kind \in TextBearing
          THEN <<nodes[Head(ns)].Text>> ELSE <<>>) \o TextsOf(Tail(ns))

RECURSIVE LineTexts(_, _)
\* The texts of the tokens of a line body, from index k on, that become
\* text-bearing nodes: the Text tokens and a block marker at the head.
LineTexts(toks, k) ==
    IF k > Len(toks) THEN <<>>
    ELSE (IF Is(toks[k], TOKEN_TEXT) \/ (k = 1 /\ Is(toks[k], TOKEN_BLOCKITEM))
          THEN <<toks[k].Text>> ELSE <<>>) \o LineTexts(toks, k + 1)

\* C18: during a call curr lies on the rightmost path of the tree; after
\* every step that has added a node, and in the returned tree, a pre-order
\* walk from the root visits all nodes in the order of their creation; and
\* in the returned tree the texts of the text-bearing nodes
\* follow each other as the tokens they come from do in the input.
C18_AppendOnly ==
    root # Nil =>
        /\ OnRightmostPath(curr)
        /\ (Len(Added) > 0 \/ pc = "done") =>
              PreOrder(root) = [k \in 1..Len(nodes) |-> k]
        /\ pc = "done" =>
              TextsOf(PreOrder(root)) =
                  Concat([k \in 1..Len(groups) |-> LineTexts(groups[k].tokens, 1)])

\* Witness of C18: a returned tree whose texts are a, b, a, the middle one
\* underlined and behind a Space.
C18_Witness ==
    /\ pc = "done"
    /\ TextsOf(PreOrder(root)) = <<"a", "b", "a">>
    /\ ChildKinds(root) = <<NODE_TEXT, NODE_SPACE, NODE_TEXTUNDERLINE, NODE_TEXT>>

\* C19: every Space has a text-bearing node right before it and a
\* text-bearing node right behind it among its siblings, so it is neither
\* the first nor the last child of its parent.
C19_SpacePlacement ==
    \A n \in 1..Len(nodes) :
        nodes[n].Kind = NODE_SPACE =>
            /\ nodes[n].Parent # Nil
            /\ LET ch == nodes[nodes[n].Parent].Childs
                   k  == Pos(nodes[n].Parent, n)
               IN  /\ 1 < k /\ k < Len(ch)
                   /\ nodes[ch[k - 1]].Kind \in TextBearing
                   /\ nodes[ch[k + 1]].Kind \in TextBearing

\* Witness of C19: a returned tree with a Space inside a nested Group,
\* between two text-bearing nodes.
C19_Witness ==
    /\ pc = "done"
    /\ \E n \in 1..Len(nodes) :
          /\ nodes[n].Kind = NODE_SPACE
          /\ nodes[n].Parent # root
          /\ nodes[nodes[n].Parent].Kind = NODE_GROUP

\* The number of Group nodes other than the root from n up to the root.
GroupDepth(n) == Cardinality({g \in Path(n) : nodes[g].Kind = NODE_GROUP /\ g # root})

\* None of the first k lines was skipped as an empty line or holds a
\* Section token.
NoResetIn(k) ==
    \A j \in 1..k :
        /\ j > 1 => Len(groups[j].tokens) > 0
        /\ \A t \in 1..Len(groups[j].tokens) : ~Is(groups[j].tokens[t], TOKEN_SECTION)

\* C20: when a line has been processed, the number of Groups other than
\* the root that enclose curr is at most the line's level, and is the
\* line's level when the call has met no empty line and no Section token.
C20_DepthWithinLevel ==
    pre.op = "LineEnd" =>
        /\ lastLevel = groups[i].level
        /\ GroupDepth(curr) <= lastLevel
        /\ NoResetIn(i) => GroupDepth(curr) = lastLevel

\* Witness of C20: a line of level 2 ends two Groups deep after a line of
\* another level, no reset having happened.
C20_Witness ==
    /\ pre.op = "LineEnd"
    /\ i >= 2
    /\ NoResetIn(i)
    /\ lastLevel = 2
    /\ groups[i - 1].level # 2
    /\ GroupDepth(curr) = 2

RECURSIVE FirstOccurrences(_)
\* The positions among the first k call expressions of the flag calls that
\* bind no variable or bind a variable no earlier flag call binds, in
\* increasing order.
FirstOccurrences(k) ==
    IF k = 0 THEN <<>>
    ELSE LET c == calls[k]
             first == /\ c.flag
                      /\ \/ c.Variable = ""
                         \/ \A j \in 1..(k - 1) :
                               ~(calls[j].flag /\ calls[j].Variable = c.Variable)
         IN  IF first THEN Append(FirstOccurrences(k - 1), k)
             ELSE FirstOccurrences(k - 1)

\* C13: at every point of parseOptions no two entries of the options list
\* share a non-empty variable; the list holds exactly the options of the
\* flag calls visited so far that bind no variable or are the first to
\* bind theirs, in the order of the calls; and File.Options is that list
\* when parseOptions has returned.
C13_OptionGrouping ==
    bpc \in {"inspect", "parsed"} =>
        /\ \A a, b \in 1..Len(options) :
              (a # b /\ options[a].Variable # "") =>
                  options[a].Variable # options[b].Variable
        /\ [k \in 1..Len(options) |-> options[k].Line] = FirstOccurrences(inspected)
        /\ \A k \in 1..Len(options) :
              /\ options[k].Variable = calls[options[k].Line].Variable
              /\ options[k].Name = calls[options[k].Line].Name
        /\ bpc = "parsed" => fileOptions = options

\* Witness of C13: three flag calls, the third binding the variable of the
\* first and the second binding none, have given two entries.
C13_Witness ==
    /\ bpc = "parsed"
    /\ Len(calls) = 3
    /\ \A k \in 1..3 : calls[k].flag
    /\ calls[1].Variable = "u" /\ calls[2].Variable = "" /\ calls[3].Variable = "u"
    /\ [k \in 1..Len(fileOptions) |-> fileOptions[k].Line] = <<1, 2>>

\* Tokenizing the option's body fails (never in plain mode).
Fails(opt) == ~optPlain /\ TokenizeString(textBody(opt)).err

RECURSIVE WithoutFailing(_)
\* The options of a list whose body can be tokenized.
WithoutFailing(opts) ==
    IF Len(opts) = 0 THEN <<>>
    ELSE (IF Fails(Head(opts)) THEN <<>> ELSE <<Head(opts)>>) \o WithoutFailing(Tail(opts))

\* The Renderer calls that feeding these options makes after the section
\* heading.
Fed(opts) == Concat([k \in 1..Len(opts) |-> feedOption(opts[k], optPlain)])

Rendered(op) == {k \in 1..Len(rendered) : rendered[k].op = op}

\* C14: whatever part of the options has been fed, the Renderer calls made
\* are the section heading followed by the calls that feeding the same
\* options without the failing ones makes; there is one TextBold and one
\* Break per option that did not fail, and every TextBold carries the head
\* of such an option; and the loop ends only when all options are handled.
C14_FailureLeavesNoTrace ==
    bpc \in {"options", "fed"} =>
        LET done == SubSeq(fileOptions, 1, fed)
            kept == WithoutFailing(done)
        IN  /\ Len(fileOptions) > 0 =>
                  rendered = <<Rendering("Section", "Options")>> \o Fed(kept)
            /\ Cardinality(Rendered("TextBold")) = Len(kept)
            /\ Cardinality(Rendered("Break")) = Len(kept)
            /\ \A k \in Rendered("TextBold") :
                  \E j \in 1..Len(kept) : rendered[k].arg = textHead(kept[j])
            /\ bpc = "fed" => fed = Len(fileOptions)

\* Witness of C14: of three options fed without -plain the second failed,
\* and the two others are rendered.
C14_Witness ==
    /\ bpc = "fed"
    /\ ~optPlain
    /\ Len(fileOptions) = 3
    /\ ~Fails(fileOptions[1]) /\ Fails(fileOptions[2]) /\ ~Fails(fileOptions[3])
    /\ Cardinality(Rendered("Break")) = 2

====
